---- MODULE Spec2Model ----
(***************************************************************************)
(* Model of the gohenry session loop: the Matrix client's event callback,  *)
(* its reconnecting sync loop, the resumption cursor (sync token) and its  *)
(* file, the fire-and-forget message handler tasks, and the shutdown path  *)
(* of Bot.Run.                                                             *)
(***************************************************************************)
EXTENDS Integers, Sequences, FiniteSets, TLC

VARIABLES
    mainPc,             \* position of Bot.Run: "new", "connected", "running", "failed"
    loopPc,             \* position of the sync loop goroutine
    shutPc,             \* position of the shutdown goroutine of Bot.Run
    ctxDone,            \* the cancellable context of Bot.Run has been cancelled
    procExited,         \* the process has exited (os.Exit / main returned)
    startupTime,        \* Client.startupTime
    lastProcessedTime,  \* Client.lastProcessedTime
    syncToken,          \* Client.syncToken, the in-memory cursor
    file,               \* the sync token file: [exists, data]
    nextBatch,          \* c.client.Store next-batch value under key ""
    syncErr,            \* the error the last client.Sync() call returned
    syncCalls,          \* number of client.Sync() calls begun (saturating)
    handlers,           \* events whose handler goroutine is still running
    cbPc,               \* position of the OnEvent callback: "idle" or "inHandler"
    lastOutcome,        \* the path the callback took for the last delivered event
    lastSave,           \* the most recent saveSyncToken call
    exitReason,         \* why the sync loop goroutine returned
    handlerFailed,      \* the last finished handler logged an error of HandleMessage
    roomCheckPc,        \* position of the periodicRoomCheck goroutine
    call,               \* a single function under test: its name and arguments
    ret,                \* the value that function returned
    writer,             \* a saveSyncToken call in progress on the token file
    reader              \* a loadSyncToken call of another process on that file

vars == <<mainPc, loopPc, shutPc, ctxDone, procExited, startupTime,
          lastProcessedTime, syncToken, file, nextBatch, syncErr, syncCalls,
          handlers, cbPc, lastOutcome, lastSave, exitReason, handlerFailed,
          roomCheckPc, call, ret, writer, reader>>

(* The variables of the specifications that exercise one function alone.   *)
unitVars == <<call, ret, writer, reader>>

sessionVars == <<startupTime, lastProcessedTime, syncToken>>

----------------------------------------------------------------------------
(* Bounds *)

MaxTs == 4              \* event timestamps range over 0..MaxTs
MaxSyncCalls == 2       \* the Sync call counter saturates here

(* The value time.Now() had when NewClient ran. *)
StartupNow == 2

----------------------------------------------------------------------------
(* Text values are sequences of one-character strings. *)

Empty == <<>>
Tokens == {<<"a">>, <<"b">>}

RECURSIVE TrimLeft(_)
TrimLeft(s) ==
    IF s # <<>> /\ Head(s) = " " THEN TrimLeft(Tail(s)) ELSE s

RECURSIVE TrimRight(_)
TrimRight(s) ==
    IF s # <<>> /\ s[Len(s)] = " " THEN TrimRight(SubSeq(s, 1, Len(s) - 1)) ELSE s

TrimSpace(s) == TrimRight(TrimLeft(s))

(* The states the token file can be in when the process starts. *)
InitFiles ==
    {[exists |-> FALSE, data |-> Empty]} \cup
    {[exists |-> TRUE, data |-> d] : d \in {<<"a">>, <<" ", "a", " ">>}}

(* loadSyncToken: absent file or failed read give the empty token. *)
loadSyncToken(f, readOk) ==
    IF ~f.exists THEN [token |-> Empty, err |-> FALSE]
    ELSE IF ~readOk THEN [token |-> Empty, err |-> TRUE]
    ELSE [token |-> TrimSpace(f.data), err |-> FALSE]

(* saveSyncToken: ioutil.WriteFile truncates the file on open and then     *)
(* writes; it can fail before the open or after the truncation.            *)
SaveOutcomes == {"ok", "failOpen", "failWrite"}

saveSyncToken(f, token, outcome) ==
    CASE outcome = "ok"        -> [exists |-> TRUE, data |-> token]
      [] outcome = "failOpen"  -> f
      [] outcome = "failWrite" -> [exists |-> TRUE, data |-> Empty]

NoSave == [done |-> FALSE, val |-> Empty, ok |-> FALSE]

RecordSave(token, outcome) ==
    [done |-> TRUE, val |-> token, ok |-> (outcome = "ok")]

----------------------------------------------------------------------------
(* Errors returned by client.Sync(): an error is the set of text fragments *)
(* its message contains; NoErr is the nil error.                            *)

NoErr == {"<nil>"}
SyncErrors ==
    { {"M_UNKNOWN_TOKEN", "401"},
      {"Invalid access token"},
      {"401"},
      {"context deadline exceeded"},
      {"connection refused"} }

ErrContains(err, fragment) == fragment \in err

IsAuthFailure_No401(err) ==
    /\ err # NoErr
    /\ \/ ErrContains(err, "M_UNKNOWN_TOKEN")
       \/ ErrContains(err, "Invalid access token")

IsAuthFailure(err) ==
    /\ err # NoErr
    /\ \/ ErrContains(err, "M_UNKNOWN_TOKEN")
       \/ ErrContains(err, "Invalid access token")
       \/ ErrContains(err, "401")

----------------------------------------------------------------------------
(* Events delivered by the stream. *)

Bot == "@henry:hen.im"
Users == {Bot, "@u1:hen.im"}
Timestamps == 0..MaxTs

Events ==
    [ts : Timestamps, type : {"m.room.message"}, sender : Users,
     membership : {"none"}, stateKey : {"none"}]
    \cup
    [ts : Timestamps, type : {"m.room.member"}, sender : Users,
     membership : {"invite", "join"}, stateKey : Users]
    \cup
    [ts : Timestamps, type : {"m.reaction"}, sender : Users,
     membership : {"none"}, stateKey : {"none"}]

----------------------------------------------------------------------------
(* No single function is under test: the state of call and ret in the      *)
(* specifications of the running bot.                                      *)
NoCall == [fn |-> "none"]

(* No saveSyncToken call is in progress; no loadSyncToken call has run.    *)
NoWrite == [pc |-> "idle", token |-> Empty, prev |-> Empty]
NoRead == [pc |-> "idle", done |-> FALSE, token |-> Empty, during |-> NoWrite]

(* NewClient: the state of a Client and of Bot.Run before Connect.         *)
Init ==
    /\ mainPc = "new"
    /\ loopPc = "notStarted"
    /\ shutPc = "idle"
    /\ ctxDone = FALSE
    /\ procExited = FALSE
    /\ startupTime = StartupNow
    /\ lastProcessedTime = StartupNow
    /\ file \in InitFiles
    /\ \E readOk \in BOOLEAN : syncToken = loadSyncToken(file, readOk).token
    /\ nextBatch = Empty
    /\ syncErr = NoErr
    /\ syncCalls = 0
    /\ handlers = {}
    /\ cbPc = "idle"
    /\ lastOutcome = [path |-> "none", join |-> "none"]
    /\ lastSave = NoSave
    /\ exitReason = "none"
    /\ handlerFailed = FALSE
    /\ roomCheckPc = "notStarted"
    /\ call = NoCall
    /\ ret = NoCall
    /\ writer = NoWrite
    /\ reader = NoRead

----------------------------------------------------------------------------
(* Bot.Run, main goroutine *)

(* Client.Connect: password login when a password is configured, else the  *)
(* configured access token, else an error. A failed login clears a held    *)
(* cursor in memory and in the file, and Bot.Run returns the error.        *)
Connect ==
    /\ mainPc = "new"
    /\ ~procExited
    /\ \E havePassword \in BOOLEAN, haveAccessToken \in BOOLEAN,
          loginOk \in BOOLEAN, outcome \in SaveOutcomes :
         IF havePassword /\ ~loginOk
         THEN /\ mainPc' = "failed"
              /\ IF syncToken # Empty
                 THEN /\ syncToken' = Empty
                      /\ file' = saveSyncToken(file, Empty, outcome)
                      /\ lastSave' = RecordSave(Empty, outcome)
                 ELSE UNCHANGED <<syncToken, file, lastSave>>
         ELSE IF ~havePassword /\ ~haveAccessToken
         THEN /\ mainPc' = "failed"
              /\ UNCHANGED <<syncToken, file, lastSave>>
         ELSE /\ mainPc' = "connected"
              /\ UNCHANGED <<syncToken, file, lastSave>>
    /\ UNCHANGED <<loopPc, shutPc, ctxDone, procExited, startupTime,
                   lastProcessedTime, nextBatch, syncErr, syncCalls,
                   handlers, cbPc, lastOutcome, exitReason>>
    /\ UNCHANGED unitVars
    /\ UNCHANGED <<handlerFailed, roomCheckPc>>

(* Bot.Run after Connect: the message handler is set, and the goroutine    *)
(* that calls ListenForMessages and the shutdown goroutine are started.    *)
RunStartTasks ==
    /\ mainPc = "connected"
    /\ ~procExited
    /\ mainPc' = "running"
    /\ loopPc' = "listen"
    /\ roomCheckPc' = "firstSleep"
    /\ UNCHANGED <<shutPc, ctxDone, procExited, startupTime,
                   lastProcessedTime, syncToken, file, nextBatch, syncErr,
                   syncCalls, handlers, cbPc, lastOutcome, lastSave,
                   exitReason>>
    /\ UNCHANGED unitVars
    /\ UNCHANGED handlerFailed

(* ListenForMessages: the handler is set, so the callback is registered, a *)
(* held cursor is handed to the store and the sync loop goroutine starts.  *)
ListenForMessages ==
    /\ loopPc = "listen"
    /\ ~procExited
    /\ nextBatch' = IF syncToken # Empty THEN syncToken ELSE nextBatch
    /\ loopPc' = "check"
    /\ UNCHANGED <<mainPc, shutPc, ctxDone, procExited, startupTime,
                   lastProcessedTime, syncToken, file, syncErr, syncCalls,
                   handlers, cbPc, lastOutcome, lastSave, exitReason>>
    /\ UNCHANGED unitVars
    /\ UNCHANGED <<handlerFailed, roomCheckPc>>

----------------------------------------------------------------------------
(* The sync loop goroutine of ListenForMessages *)

Bump(n) == IF n < MaxSyncCalls THEN n + 1 ELSE n

(* The select at the head of the loop: a cancelled context ends the loop,  *)
(* otherwise the default branch is taken.                                  *)
LoopCheck_IgnoresCancel ==
    /\ loopPc = "check"
    /\ ~procExited
    /\ loopPc' = "starting"
    /\ UNCHANGED exitReason
    /\ UNCHANGED <<mainPc, shutPc, ctxDone, procExited, startupTime,
                   lastProcessedTime, syncToken, file, nextBatch, syncErr,
                   syncCalls, handlers, cbPc, lastOutcome, lastSave>>
    /\ UNCHANGED unitVars
    /\ UNCHANGED <<handlerFailed, roomCheckPc>>

LoopCheck ==
    /\ loopPc = "check"
    /\ ~procExited
    /\ IF ctxDone
       THEN /\ loopPc' = "exited"
            /\ exitReason' = "cancelled"
       ELSE /\ loopPc' = "starting"
            /\ UNCHANGED exitReason
    /\ UNCHANGED <<mainPc, shutPc, ctxDone, procExited, startupTime,
                   lastProcessedTime, syncToken, file, nextBatch, syncErr,
                   syncCalls, handlers, cbPc, lastOutcome, lastSave>>
    /\ UNCHANGED unitVars
    /\ UNCHANGED <<handlerFailed, roomCheckPc>>

(* The default branch calls client.Sync(). *)
SyncStart ==
    /\ loopPc = "starting"
    /\ ~procExited
    /\ loopPc' = "syncing"
    /\ syncCalls' = Bump(syncCalls)
    /\ lastSave' = NoSave
    /\ syncErr' = NoErr
    /\ UNCHANGED <<mainPc, shutPc, ctxDone, procExited, startupTime,
                   lastProcessedTime, syncToken, file, nextBatch,
                   handlers, cbPc, lastOutcome, exitReason>>
    /\ UNCHANGED unitVars
    /\ UNCHANGED <<handlerFailed, roomCheckPc>>

(* While client.Sync() runs, a sync response stores a new next-batch token. *)
StreamAdvance(t) ==
    /\ loopPc = "syncing"
    /\ ~procExited
    /\ nextBatch' = t
    /\ UNCHANGED <<mainPc, loopPc, shutPc, ctxDone, procExited, startupTime,
                   lastProcessedTime, syncToken, file, syncErr, syncCalls,
                   handlers, cbPc, lastOutcome, lastSave, exitReason>>
    /\ UNCHANGED unitVars
    /\ UNCHANGED <<handlerFailed, roomCheckPc>>

(* client.Sync() returns, with an error or with nil. *)
SyncReturn(err) ==
    /\ loopPc = "syncing"
    /\ cbPc = "idle"
    /\ ~procExited
    /\ loopPc' = "returned"
    /\ syncErr' = err
    /\ UNCHANGED <<mainPc, shutPc, ctxDone, procExited, startupTime,
                   lastProcessedTime, syncToken, file, nextBatch, syncCalls,
                   handlers, cbPc, lastOutcome, lastSave, exitReason>>
    /\ UNCHANGED unitVars
    /\ UNCHANGED <<handlerFailed, roomCheckPc>>

(* Where the loop goes after client.Sync() returned err: out of the loop   *)
(* on an authentication failure, into the sleep on any other error, and    *)
(* straight back to the head of the loop on nil.                           *)
AfterSyncPc_GivesUp(err) ==
    IF err # NoErr THEN "exited" ELSE "check"

AfterSyncPc_AlwaysSleeps(err) ==
    IF IsAuthFailure(err) THEN "exited" ELSE "backoff"

AfterSyncPc(err) ==
    IF IsAuthFailure(err) THEN "exited"
    ELSE IF err # NoErr THEN "backoff"
    ELSE "check"

(* The token the loop keeps and saves after a stream termination that is   *)
(* not an authentication failure: the store's next-batch token, if any.    *)
TokenToSave_Stale(nb, tok) == tok

TokenToSave_Cleared(nb, tok) == Empty

TokenToSave(nb, tok) == nb

(* The loop body after client.Sync() returned: an authentication failure   *)
(* clears the cursor and ends the loop; otherwise a known next-batch token *)
(* is copied to the cursor and saved, and an error leads to the sleep.     *)
AfterSync ==
    /\ loopPc = "returned"
    /\ ~procExited
    /\ \E outcome \in SaveOutcomes :
         IF IsAuthFailure(syncErr)
         THEN /\ syncToken' = Empty
              /\ file' = saveSyncToken(file, Empty, outcome)
              /\ lastSave' = RecordSave(Empty, outcome)
              /\ exitReason' = "auth"
         ELSE /\ IF nextBatch # Empty
                 THEN /\ syncToken' = nextBatch
                      /\ file' = saveSyncToken(file, TokenToSave(nextBatch, syncToken), outcome)
                      /\ lastSave' = RecordSave(TokenToSave(nextBatch, syncToken), outcome)
                 ELSE UNCHANGED <<syncToken, file, lastSave>>
              /\ UNCHANGED exitReason
    /\ loopPc' = AfterSyncPc(syncErr)
    /\ UNCHANGED <<mainPc, shutPc, ctxDone, procExited, startupTime,
                   lastProcessedTime, nextBatch, syncErr, syncCalls,
                   handlers, cbPc, lastOutcome>>
    /\ UNCHANGED unitVars
    /\ UNCHANGED <<handlerFailed, roomCheckPc>>

(* time.Sleep(5 * time.Second) is over. *)
BackoffDone ==
    /\ loopPc = "backoff"
    /\ ~procExited
    /\ loopPc' = "check"
    /\ UNCHANGED <<mainPc, shutPc, ctxDone, procExited, startupTime,
                   lastProcessedTime, syncToken, file, nextBatch, syncErr,
                   syncCalls, handlers, cbPc, lastOutcome, lastSave,
                   exitReason>>
    /\ UNCHANGED unitVars
    /\ UNCHANGED <<handlerFailed, roomCheckPc>>

----------------------------------------------------------------------------
(* The OnEvent callback registered by ListenForMessages *)

(* The two early returns of the callback: an event with a timestamp older  *)
(* than the startup time, or not newer than the last processed one.        *)
ShouldSkip_Inverted(ts, startup, last) ==
    \/ ts > 0 /\ ts > startup
    \/ ts > 0 /\ ts >= last

ShouldSkip_StaleOnly(ts, startup, last) ==
    ts > 0 /\ ts < startup

ShouldSkip_SeenStrict(ts, startup, last) ==
    \/ ts > 0 /\ ts < startup
    \/ ts > 0 /\ ts < last

ShouldSkip(ts, startup, last) ==
    \/ ts > 0 /\ ts < startup
    \/ ts > 0 /\ ts <= last

SkipPath(ts, startup) ==
    IF ts > 0 /\ ts < startup THEN "stale" ELSE "seen"

(* The invitation test of the callback: member event, membership invite,   *)
(* state key equal to the bot's user id.                                   *)
IsInviteForBot_BySender(e) ==
    /\ e.type = "m.room.member"
    /\ e.membership = "invite"
    /\ e.sender = Bot

IsInviteForBot(e) ==
    /\ e.type = "m.room.member"
    /\ e.membership = "invite"
    /\ e.stateKey = Bot

(* go c.messageHandler(ctx, evt): the handler runs as its own goroutine    *)
(* and the callback goes on without waiting for it.                        *)
StartHandler_Synchronous(e) ==
    /\ handlers' = handlers \cup {e}
    /\ cbPc' = "inHandler"

StartHandler(e) ==
    /\ handlers' = handlers \cup {e}
    /\ cbPc' = "idle"

(* The self-message filter: evt.Sender == c.userID. *)
IsOwnMessage_NeverOwn(e) == FALSE

IsOwnMessage(e) == e.sender = Bot

OnEvent_WatermarkOnDispatch(e) ==
    /\ loopPc = "syncing"
    /\ cbPc = "idle"
    /\ ~procExited
    /\ IF ShouldSkip(e.ts, startupTime, lastProcessedTime)
       THEN /\ lastOutcome' = [path |-> SkipPath(e.ts, startupTime), join |-> "none"]
            /\ UNCHANGED <<lastProcessedTime, handlers, cbPc>>
       ELSE \E joinOk \in BOOLEAN :
                 LET join == IF ~IsInviteForBot(e) THEN "none"
                             ELSE IF joinOk THEN "ok" ELSE "failed"
                 IN  IF e.type # "m.room.message"
                     THEN /\ lastOutcome' = [path |-> "notMessage", join |-> join]
                          /\ UNCHANGED <<lastProcessedTime, handlers, cbPc>>
                     ELSE IF IsOwnMessage(e)
                     THEN /\ lastOutcome' = [path |-> "self", join |-> join]
                          /\ UNCHANGED <<lastProcessedTime, handlers, cbPc>>
                     ELSE /\ lastOutcome' = [path |-> "dispatched", join |-> join]
                          /\ lastProcessedTime' =
                                IF e.ts > 0 THEN e.ts ELSE lastProcessedTime
                          /\ StartHandler(e)
    /\ UNCHANGED <<mainPc, loopPc, shutPc, ctxDone, procExited, startupTime,
                   syncToken, file, nextBatch, syncErr, syncCalls, lastSave,
                   exitReason>>
    /\ UNCHANGED unitVars
    /\ UNCHANGED <<handlerFailed, roomCheckPc>>

OnEvent(e) ==
    /\ loopPc = "syncing"
    /\ cbPc = "idle"
    /\ ~procExited
    /\ IF ShouldSkip(e.ts, startupTime, lastProcessedTime)
       THEN /\ lastOutcome' = [path |-> SkipPath(e.ts, startupTime), join |-> "none"]
            /\ UNCHANGED <<lastProcessedTime, handlers, cbPc>>
       ELSE /\ lastProcessedTime' = IF e.ts > 0 THEN e.ts ELSE lastProcessedTime
            /\ \E joinOk \in BOOLEAN :
                 LET join == IF ~IsInviteForBot(e) THEN "none"
                             ELSE IF joinOk THEN "ok" ELSE "failed"
                 IN  IF e.type # "m.room.message"
                     THEN /\ lastOutcome' = [path |-> "notMessage", join |-> join]
                          /\ UNCHANGED <<handlers, cbPc>>
                     ELSE IF IsOwnMessage(e)
                     THEN /\ lastOutcome' = [path |-> "self", join |-> join]
                          /\ UNCHANGED <<handlers, cbPc>>
                     ELSE /\ lastOutcome' = [path |-> "dispatched", join |-> join]
                          /\ StartHandler(e)
    /\ UNCHANGED <<mainPc, loopPc, shutPc, ctxDone, procExited, startupTime,
                   syncToken, file, nextBatch, syncErr, syncCalls, lastSave,
                   exitReason>>
    /\ UNCHANGED unitVars
    /\ UNCHANGED <<handlerFailed, roomCheckPc>>

----------------------------------------------------------------------------
(* A message handler goroutine: the closure set by Bot.Run, which calls    *)
(* MessageHandler.HandleMessage for an event with a non-empty body. It     *)
(* reaches the client only through the MatrixService methods, none of     *)
(* which assigns a field of the Client. An error HandleMessage returns is   *)
(* logged by the closure and goes nowhere else.                            *)
HandleMessageErrors ==
    {"error determining room type", "error generating response",
     "error sending response"}

HandlerResults == {"<nil>"} \cup HandleMessageErrors

MessageHandlerTask_WritesWatermark(e) ==
    /\ e \in handlers
    /\ ~procExited
    /\ handlers' = handlers \ {e}
    /\ \E err \in HandlerResults : handlerFailed' = (err # "<nil>")
    /\ lastProcessedTime' = IF e.ts > 0 THEN e.ts ELSE lastProcessedTime
    /\ UNCHANGED <<mainPc, loopPc, shutPc, ctxDone, procExited, startupTime,
                   syncToken, file, nextBatch, syncErr,
                   syncCalls, cbPc, lastOutcome, lastSave, exitReason>>
    /\ UNCHANGED unitVars
    /\ UNCHANGED roomCheckPc

MessageHandlerTask_CancelsOnError(e) ==
    /\ e \in handlers
    /\ ~procExited
    /\ handlers' = handlers \ {e}
    /\ \E err \in HandlerResults :
         /\ handlerFailed' = (err # "<nil>")
         /\ ctxDone' = (ctxDone \/ err # "<nil>")
    /\ UNCHANGED <<mainPc, loopPc, shutPc, procExited, startupTime,
                   lastProcessedTime, syncToken, file, nextBatch, syncErr,
                   syncCalls, cbPc, lastOutcome, lastSave, exitReason>>
    /\ UNCHANGED unitVars
    /\ UNCHANGED roomCheckPc

MessageHandlerTask(e) ==
    /\ e \in handlers
    /\ ~procExited
    /\ handlers' = handlers \ {e}
    /\ \E err \in HandlerResults : handlerFailed' = (err # "<nil>")
    /\ UNCHANGED <<mainPc, loopPc, shutPc, ctxDone, procExited, startupTime,
                   lastProcessedTime, syncToken, file, nextBatch, syncErr,
                   syncCalls, cbPc, lastOutcome, lastSave, exitReason>>
    /\ UNCHANGED unitVars
    /\ UNCHANGED roomCheckPc

----------------------------------------------------------------------------
(* The periodicRoomCheck goroutine, started by CheckAndJoinInvitedRooms.   *)
(* It reads the context and the client's identity and writes no field of   *)
(* the Client.                                                             *)

botVars == <<mainPc, loopPc, shutPc, ctxDone, procExited, startupTime,
             lastProcessedTime, syncToken, file, nextBatch, syncErr,
             syncCalls, handlers, cbPc, lastOutcome, lastSave, exitReason,
             handlerFailed>>

(* time.Sleep(5 * time.Second) and the start message to the owner: the     *)
(* sleep does not look at the context.                                     *)
RoomCheckWake ==
    /\ roomCheckPc = "firstSleep"
    /\ ~procExited
    /\ roomCheckPc' = "select"
    /\ UNCHANGED <<botVars, unitVars>>

(* The head of the loop: return when the context is done, else one check   *)
(* of the joined rooms followed by time.Sleep(10 * time.Second).           *)
RoomCheckSelect ==
    /\ roomCheckPc = "select"
    /\ ~procExited
    /\ roomCheckPc' = IF ctxDone THEN "exited" ELSE "sleeping"
    /\ UNCHANGED <<botVars, unitVars>>

(* The ten seconds are over. *)
RoomCheckSleepDone ==
    /\ roomCheckPc = "sleeping"
    /\ ~procExited
    /\ roomCheckPc' = "select"
    /\ UNCHANGED <<botVars, unitVars>>

RoomCheckStep == RoomCheckWake \/ RoomCheckSelect \/ RoomCheckSleepDone

----------------------------------------------------------------------------
(* The shutdown goroutine of Bot.Run *)

(* A termination signal arrives: cancel() is called. *)
ShutdownCancel ==
    /\ mainPc = "running"
    /\ shutPc = "idle"
    /\ ~procExited
    /\ shutPc' = "cancelled"
    /\ ctxDone' = TRUE
    /\ UNCHANGED <<mainPc, loopPc, procExited, startupTime,
                   lastProcessedTime, syncToken, file, nextBatch, syncErr,
                   syncCalls, handlers, cbPc, lastOutcome, lastSave,
                   exitReason>>
    /\ UNCHANGED unitVars
    /\ UNCHANGED <<handlerFailed, roomCheckPc>>

(* matrixService.Disconnect(): the client logs out; its result is only     *)
(* logged.                                                                 *)
ShutdownDisconnect ==
    /\ shutPc = "cancelled"
    /\ ~procExited
    /\ shutPc' = "disconnected"
    /\ UNCHANGED <<mainPc, loopPc, ctxDone, procExited, startupTime,
                   lastProcessedTime, syncToken, file, nextBatch, syncErr,
                   syncCalls, handlers, cbPc, lastOutcome, lastSave,
                   exitReason>>
    /\ UNCHANGED unitVars
    /\ UNCHANGED <<handlerFailed, roomCheckPc>>

(* The process ends: os.Exit(0) after the cleanup or its timeout, or main  *)
(* leaving through log.Fatalf once Bot.Run has returned an error.          *)
ProcessExit ==
    /\ ~procExited
    /\ ctxDone \/ mainPc = "failed"
    /\ procExited' = TRUE
    /\ UNCHANGED <<mainPc, loopPc, shutPc, ctxDone, startupTime,
                   lastProcessedTime, syncToken, file, nextBatch, syncErr,
                   syncCalls, handlers, cbPc, lastOutcome, lastSave,
                   exitReason>>
    /\ UNCHANGED unitVars
    /\ UNCHANGED <<handlerFailed, roomCheckPc>>

----------------------------------------------------------------------------
(* The steps of Bot.Run, of the sync loop, of the stream and its callback, *)
(* of the handlers and of the shutdown. periodicRoomCheck reads the        *)
(* context and writes nothing these steps read; its steps are added in     *)
(* TaskNext.                                                               *)
Next ==
    \/ Connect
    \/ RunStartTasks
    \/ ListenForMessages
    \/ LoopCheck
    \/ SyncStart
    \/ \E t \in Tokens : StreamAdvance(t)
    \/ \E e \in Events : OnEvent(e)
    \/ \E err \in SyncErrors \cup {NoErr} : SyncReturn(err)
    \/ AfterSync
    \/ BackoffDone
    \/ \E e \in Events : MessageHandlerTask(e)
    \/ ShutdownCancel
    \/ ShutdownDisconnect
    \/ ProcessExit

Spec == Init /\ [][Next]_vars

(* The sync loop goroutine keeps running while the process lives. *)
LoopStep == LoopCheck \/ SyncStart \/ AfterSync \/ BackoffDone

FairSpec == Spec /\ WF_vars(LoopStep)

(* The bot with its second long-lived task: the steps of Next interleaved  *)
(* with those of periodicRoomCheck. Both goroutines keep being scheduled   *)
(* while the process lives; nothing is assumed about the server, which may *)
(* keep a sync stream open for ever, nor about when the process is ended.  *)
TaskNext ==
    \/ Next
    \/ RoomCheckWake
    \/ RoomCheckSelect
    \/ RoomCheckSleepDone

TaskSpec == Init /\ [][TaskNext]_vars

TaskFairSpec ==
    /\ TaskSpec
    /\ WF_vars(ListenForMessages \/ LoopStep)
    /\ WF_vars(RoomCheckStep)

----------------------------------------------------------------------------
(* The token file under one writer and one reader. saveSyncToken is        *)
(* ioutil.WriteFile: the file is opened with O_TRUNC, which empties it,    *)
(* then the bytes are written, in one piece or in several. loadSyncToken   *)
(* is os.Stat followed by ioutil.ReadFile; it runs in NewClient, which     *)
(* every command of the program calls, so a second process started while   *)
(* the bot runs reads the file the bot writes.                             *)

FileTokens == {<<"a", "b">>, <<"c", "d">>}

fileFixed == <<mainPc, loopPc, shutPc, ctxDone, procExited, startupTime,
               lastProcessedTime, syncToken, nextBatch, syncErr, syncCalls,
               handlers, cbPc, lastOutcome, lastSave, exitReason,
               handlerFailed, roomCheckPc, call, ret>>

(* os.OpenFile(name, O_WRONLY|O_CREATE|O_TRUNC, perm) *)
SaveOpen(token, ok) ==
    /\ writer.pc = "idle"
    /\ IF ok
       THEN /\ file' = [exists |-> TRUE, data |-> Empty]
            /\ writer' = [pc |-> "write", token |-> token,
                          prev |-> IF file.exists THEN file.data ELSE Empty]
       ELSE UNCHANGED <<file, writer>>
    /\ UNCHANGED <<fileFixed, reader>>

(* f.Write(data): the file holds the first k bytes of the token; with the  *)
(* last byte written the file is closed and the call returns.              *)
SaveWrite(k) ==
    /\ writer.pc = "write"
    /\ k > Len(file.data)
    /\ k <= Len(writer.token)
    /\ file' = [exists |-> TRUE, data |-> SubSeq(writer.token, 1, k)]
    /\ writer' = IF k = Len(writer.token) THEN NoWrite ELSE writer
    /\ UNCHANGED <<fileFixed, reader>>

(* The write fails: the call returns its error and leaves the file as far  *)
(* as it got.                                                              *)
SaveWriteFail ==
    /\ writer.pc = "write"
    /\ writer' = NoWrite
    /\ UNCHANGED <<file, fileFixed, reader>>

(* os.Stat(tokenFile): a missing file ends the call with the empty token.  *)
LoadStat ==
    /\ reader.pc = "idle"
    /\ reader' = IF file.exists
                 THEN [pc |-> "read", done |-> FALSE, token |-> Empty,
                       during |-> NoWrite]
                 ELSE [pc |-> "idle", done |-> TRUE,
                       token |-> loadSyncToken(file, TRUE).token,
                       during |-> writer]
    /\ UNCHANGED <<file, fileFixed, writer>>

(* ioutil.ReadFile(tokenFile) and strings.TrimSpace; a failed read gives   *)
(* an error and is not a value read.                                       *)
LoadRead(readOk) ==
    /\ reader.pc = "read"
    /\ reader' = [pc |-> "idle", done |-> readOk,
                  token |-> loadSyncToken(file, readOk).token,
                  during |-> writer]
    /\ UNCHANGED <<file, fileFixed, writer>>

FileNext ==
    \/ \E token \in FileTokens, ok \in BOOLEAN : SaveOpen(token, ok)
    \/ \E k \in 1..Len(writer.token) : SaveWrite(k)
    \/ SaveWriteFail
    \/ LoadStat
    \/ \E readOk \in BOOLEAN : LoadRead(readOk)

FileSpec == Init /\ [][FileNext]_vars

----------------------------------------------------------------------------
(* Functions of package strings, on sequences of one-character strings.    *)

UpperCase == <<"A", "B", "C", "D", "E", "F", "G", "H", "I", "J", "K", "L", "M",
               "N", "O", "P", "Q", "R", "S", "T", "U", "V", "W", "X", "Y", "Z">>
LowerCase == <<"a", "b", "c", "d", "e", "f", "g", "h", "i", "j", "k", "l", "m",
               "n", "o", "p", "q", "r", "s", "t", "u", "v", "w", "x", "y", "z">>

ToLower(s) ==
    [i \in 1..Len(s) |->
        IF \E k \in 1..26 : UpperCase[k] = s[i]
        THEN LowerCase[CHOOSE k \in 1..26 : UpperCase[k] = s[i]]
        ELSE s[i]]

HasPrefix(s, p) == Len(p) <= Len(s) /\ SubSeq(s, 1, Len(p)) = p

TrimPrefix(s, p) == IF HasPrefix(s, p) THEN SubSeq(s, Len(p) + 1, Len(s)) ELSE s

(* strings.Index counted from 1, with 0 for "not found" (Go: from 0, -1). *)
Index(s, sub) ==
    LET hits == {i \in 1..(Len(s) - Len(sub) + 1) :
                    SubSeq(s, i, i + Len(sub) - 1) = sub}
    IN  IF hits = {} THEN 0 ELSE CHOOSE i \in hits : \A j \in hits : i <= j

Contains(s, sub) == Index(s, sub) # 0

(* strings.ReplaceAll for a non-empty old: leftmost matches, not           *)
(* overlapping, the replacement is not scanned again.                      *)
RECURSIVE ReplaceAll(_, _, _)
ReplaceAll(s, old, new) ==
    LET i == Index(s, old)
    IN  IF old = <<>> \/ i = 0 THEN s
        ELSE SubSeq(s, 1, i - 1) \o new
               \o ReplaceAll(SubSeq(s, i + Len(old), Len(s)), old, new)

(* strings.Fields: the maximal runs of characters that are not spaces.     *)
RECURSIVE Fields(_)
Fields(s) ==
    LET t == TrimLeft(s)
        spaces == {i \in 1..Len(t) : t[i] = " "}
        n == IF spaces = {} THEN Len(t) + 1
             ELSE CHOOSE i \in spaces : \A j \in spaces : i <= j
    IN  IF t = <<>> THEN <<>>
        ELSE <<SubSeq(t, 1, n - 1)>> \o Fields(SubSeq(t, n, Len(t)))

(* strings.Trim(s, cutset): leading and trailing characters of cutset go.  *)
RECURSIVE Trim(_, _)
Trim(s, cutset) ==
    IF s # <<>> /\ Head(s) \in cutset THEN Trim(Tail(s), cutset)
    ELSE IF s # <<>> /\ s[Len(s)] \in cutset
    THEN Trim(SubSeq(s, 1, Len(s) - 1), cutset)
    ELSE s

----------------------------------------------------------------------------
(* The bot's identity and the mention tests of the Matrix client.          *)

(* The configured user id, as text: string(c.userID). *)
BotText == <<"@", "h", "e", "n", "r", "y", ":", "h", "e", "n", ".", "i", "m">>

(* "henry:hen.im" -> "henry"; a user id without colon is its own localpart *)
Localpart(userID) ==
    LET fullUsername == TrimPrefix(userID, <<"@">>)
        idx == Index(fullUsername, <<":">>)
    IN  IF idx # 0 THEN SubSeq(fullUsername, 1, idx - 1) ELSE fullUsername

WordPunctuation == {",", ".", "!", "?", ":", ";", "\"", "'", "(", ")", "[", "]", "{", "}"}
AfterNamePunctuation == {",", ".", "!", "?", ":", ";"}

MentionsBot_Substring(content, userID) ==
    LET fullMention == <<"@">> \o TrimPrefix(userID, <<"@">>)
        lc == ToLower(content)
        localpart == ToLower(Localpart(userID))
    IN  \/ Contains(lc, fullMention)
        \/ Contains(lc, localpart)

MentionsBot_AnyColon(content, userID) ==
    LET fullMention == <<"@">> \o TrimPrefix(userID, <<"@">>)
        lc == ToLower(content)
        localpart == ToLower(Localpart(userID))
        words == Fields(lc)
        WordHit(w) ==
            LET word == ToLower(Trim(w, WordPunctuation))
            IN  \/ word = localpart
                \/ /\ HasPrefix(word, localpart)
                   /\ Len(word) > Len(localpart)
                   /\ word[Len(localpart) + 1] \in AfterNamePunctuation
    IN  \/ Contains(lc, fullMention)
        \/ /\ Contains(lc, localpart)
           /\ \E k \in 1..Len(words) : WordHit(words[k])
        \/ Contains(lc, <<":">>)

(* The tests IsAddressedToBot makes in a room that is not direct: the full *)
(* mention in the lower-cased content, the localpart as a word of its own  *)
(* or followed by punctuation, or the localpart followed by a colon.       *)
MentionsBot(content, userID) ==
    LET fullMention == <<"@">> \o TrimPrefix(userID, <<"@">>)
        lc == ToLower(content)
        localpart == ToLower(Localpart(userID))
        words == Fields(lc)
        WordHit(w) ==
            LET word == ToLower(Trim(w, WordPunctuation))
            IN  \/ word = localpart
                \/ /\ HasPrefix(word, localpart)
                   /\ Len(word) > Len(localpart)
                   /\ word[Len(localpart) + 1] \in AfterNamePunctuation
    IN  \/ Contains(lc, fullMention)
        \/ /\ Contains(lc, localpart)
           /\ \E k \in 1..Len(words) : WordHit(words[k])
        \/ Contains(lc, localpart \o <<":">>)

IsAddressedToBot_NoDirectShortcut(content, roomType, userID) ==
    MentionsBot(content, userID)

(* Client.IsAddressedToBot, the user id of the client made a parameter.    *)
IsAddressedToBot(content, roomType, userID) ==
    IF roomType = "direct" THEN TRUE ELSE MentionsBot(content, userID)

----------------------------------------------------------------------------
(* The reply orchestrator: the text HandleMessage works on, the history    *)
(* fetch and the conversation context.                                     *)

(* The mention stripping, written twice in the source (HandleMessage and    *)
(* getConversationContext) with the same six steps. Replacing the empty    *)
(* string by the empty string changes nothing.                             *)
StripMention(text, mention, localpart) ==
    LET a == ReplaceAll(text, mention, <<>>)
        b == ReplaceAll(a, <<" ">> \o localpart \o <<" ">>, <<" ">>)
        c == ReplaceAll(b, <<" ">> \o localpart, <<>>)
        d == IF HasPrefix(c, localpart \o <<" ">>)
             THEN SubSeq(c, Len(localpart) + 2, Len(c)) ELSE c
        e == IF d = localpart THEN <<>> ELSE d
    IN  TrimSpace(e)

MessageText_NeverStrips(content, roomType, userID) == content

(* messageText of HandleMessage: the content, stripped in a group room.    *)
MessageText(content, roomType, userID) ==
    IF roomType = "group"
    THEN StripMention(content, <<"@">> \o TrimPrefix(userID, <<"@">>),
                      Localpart(userID))
    ELSE content

(* config.ContextMessageCount, its default. *)
ContextMessageCount == 10

(* Client.GetRoomContext and Service.GetRoomContext on what the server     *)
(* answered: events without body are left out, the scan stops once limit   *)
(* events are kept (after keeping one, so never before the first), and     *)
(* each event becomes a Message. The order is the server's: backward for   *)
(* /messages, that of a map for the room-state fallback.                   *)
GetRoomContext(fetch, limit, botUser) ==
    LET withBody == SelectSeq(fetch.chunk, LAMBDA ev : ev.body # <<>>)
        n == IF Len(withBody) = 0 THEN 0
             ELSE IF limit < 1 THEN 1
             ELSE IF limit < Len(withBody) THEN limit ELSE Len(withBody)
    IN  IF fetch.err THEN [err |-> TRUE, msgs |-> <<>>]
        ELSE [err |-> FALSE,
              msgs |-> [i \in 1..n |->
                          [Content |-> withBody[i].body,
                           SenderID |-> withBody[i].sender,
                           Timestamp |-> withBody[i].ts,
                           IsFromBot |-> withBody[i].sender = botUser]]]

(* recentMessages: nothing when the fetch failed. *)
RecentMessages(fetched) ==
    IF fetched.err THEN <<>>
    ELSE SelectSeq(fetched.msgs, LAMBDA m : m.Content # <<>>)

Reverse(s) == [i \in 1..Len(s) |-> s[Len(s) + 1 - i]]

(* The content a history message contributes. *)
HistoryContent(msg, botID) ==
    IF /\ ~msg.IsFromBot
       /\ \/ Contains(msg.Content, botID)
          \/ Contains(ToLower(msg.Content), ToLower(Localpart(botID)))
    THEN StripMention(msg.Content, botID, Localpart(botID))
    ELSE msg.Content

HistoryEntry(msg, botID) ==
    [Role |-> IF msg.IsFromBot THEN "assistant" ELSE "user",
     Content |-> HistoryContent(msg, botID),
     Timestamp |-> msg.Timestamp,
     SenderID |-> msg.SenderID]

ContextEntries_KeepsEmptied(recent, botID) ==
    LET toProcess == Reverse(recent)
    IN  [i \in 1..Len(toProcess) |-> HistoryEntry(toProcess[i], botID)]

(* The loop over the reversed history: entries left without content are   *)
(* not appended.                                                           *)
ContextEntries(recent, botID) ==
    LET toProcess == Reverse(recent)
    IN  SelectSeq([i \in 1..Len(toProcess) |-> HistoryEntry(toProcess[i], botID)],
                  LAMBDA m : m.Content # <<>>)

(* 5 seconds, in milliseconds. *)
DedupWindowMs == 5000

CurrentMessageExists(entries, senderID, currentMessage, now) ==
    \E i \in 1..Len(entries) :
        /\ entries[i].Content = currentMessage
        /\ entries[i].SenderID = senderID
        /\ now - entries[i].Timestamp < DedupWindowMs

ContextWindow(senderID, currentMessage, fetched, now, botID) ==
    LET entries == ContextEntries(RecentMessages(fetched), botID)
    IN  IF CurrentMessageExists(entries, senderID, currentMessage, now)
        THEN entries
        ELSE Append(entries, [Role |-> "user", Content |-> currentMessage,
                              Timestamp |-> now, SenderID |-> senderID])

getConversationContext_PropagatesError(senderID, currentMessage, fetched, now, botID) ==
    IF fetched.err
    THEN [window |-> <<>>, err |-> "error getting messages"]
    ELSE [window |-> ContextWindow(senderID, currentMessage, fetched, now, botID),
          err |-> "<nil>"]

(* getConversationContext: the room type it asks for is only logged. *)
getConversationContext(senderID, currentMessage, fetched, now, botID) ==
    [window |-> ContextWindow(senderID, currentMessage, fetched, now, botID),
     err |-> "<nil>"]

----------------------------------------------------------------------------
(* MessageHandler.HandleMessage: one message of one sender, with what the   *)
(* services answer given in the record in: roomType is the answer of       *)
(* GetRoomType ("error" when it fails), fetch that of the history request, *)
(* count the configured ContextMessageCount, typingOn and typingOff whether *)
(* the two SendTyping calls succeed, generated the answer of                *)
(* GenerateResponse, sendOk whether SendMessage succeeds. The value is the *)
(* error returned and the service calls made, in order.                    *)

(* config.AllowedDomain, here the homeserver of the bot's own user id. *)
AllowedDomain == SubSeq(BotText, 8, 13)

(* strings.Split(s, sep) for a non-empty sep. *)
RECURSIVE Split(_, _)
Split(s, sep) ==
    LET i == Index(s, sep)
    IN  IF i = 0 THEN <<s>>
        ELSE <<SubSeq(s, 1, i - 1)>> \o Split(SubSeq(s, i + Len(sep), Len(s)), sep)

IsFromAllowedDomain_AnyDomain(userID) ==
    Len(Split(userID, <<":">>)) = 2

(* Client.IsFromAllowedDomain *)
IsFromAllowedDomain(userID) ==
    LET parts == Split(userID, <<":">>)
    IN  IF Len(parts) # 2 THEN FALSE ELSE parts[2] = AllowedDomain

(* The senders of handled messages and their user ids as text. *)
Senders == {"@u1:hen.im", "@u2:evil.org", "u1", "@u1:hen.im:8448"}

UserText(senderID) ==
    CASE senderID = "@u1:hen.im" -> <<"@", "u", "1", ":">> \o AllowedDomain
      [] senderID = "@u2:evil.org" ->
            <<"@", "u", "2", ":", "e", "v", "i", "l", ".", "o", "r", "g">>
      [] senderID = "u1" -> <<"u", "1">>
      [] senderID = "@u1:hen.im:8448" ->
            <<"@", "u", "1", ":">> \o AllowedDomain \o <<":", "8", "4", "4", "8">>

(* "Sorry, I'm having trouble thinking right now." *)
Apology ==
    <<"S", "o", "r", "r", "y", ",", " ", "I", "'", "m", " ",
      "h", "a", "v", "i", "n", "g", " ", "t", "r", "o", "u", "b", "l", "e", " ",
      "t", "h", "i", "n", "k", "i", "n", "g", " ", "r", "i", "g", "h", "t", " ",
      "n", "o", "w", ".">>

TypingTimeout == 30000

HandleResult(err, calls) == [err |-> err, calls |-> calls]

AfterGenerate_NoApology(in, calls) ==
    IF in.generated.err
    THEN HandleResult("error generating response", calls)
    ELSE LET sent == calls \o <<[op |-> "SendTyping", typing |-> FALSE, timeout |-> 0],
                               [op |-> "SendMessage", text |-> in.generated.text]>>
         IN  IF in.sendOk THEN HandleResult("<nil>", sent)
             ELSE HandleResult("error sending response", sent)

AfterGenerate_SendsBeforeTypingOff(in, calls) ==
    IF in.generated.err
    THEN HandleResult("error generating response",
                      Append(calls, [op |-> "SendMessage", text |-> Apology]))
    ELSE LET sent == calls \o <<[op |-> "SendMessage", text |-> in.generated.text],
                               [op |-> "SendTyping", typing |-> FALSE, timeout |-> 0]>>
         IN  IF in.sendOk THEN HandleResult("<nil>", sent)
             ELSE HandleResult("error sending response", sent)

(* HandleMessage once GenerateResponse has answered: the apology and the   *)
(* error, or the end of the typing indicator and the reply. A failing      *)
(* SendTyping or a failing apology is only logged.                         *)
AfterGenerate(in, calls) ==
    IF in.generated.err
    THEN HandleResult("error generating response",
                      Append(calls, [op |-> "SendMessage", text |-> Apology]))
    ELSE LET sent == calls \o <<[op |-> "SendTyping", typing |-> FALSE, timeout |-> 0],
                               [op |-> "SendMessage", text |-> in.generated.text]>>
         IN  IF in.sendOk THEN HandleResult("<nil>", sent)
             ELSE HandleResult("error sending response", sent)

(* The context HandleMessage hands to GenerateResponse: the window, or the *)
(* current message alone if getConversationContext gave an error.          *)
ContextMessages(in, messageText) ==
    LET fetched == GetRoomContext(in.fetch, in.count, Bot)
        got == getConversationContext(in.senderID, messageText, fetched,
                                      in.now, BotText)
    IN  IF got.err # "<nil>"
        THEN <<[Role |-> "user", Content |-> messageText,
                Timestamp |-> in.now, SenderID |-> in.senderID]>>
        ELSE got.window

Reply_StopsOnTypingFailure(in, messageText) ==
    LET asked == <<[op |-> "GetRoomType"],
                   [op |-> "GetRoomType"],
                   [op |-> "GetRoomContext", limit |-> in.count],
                   [op |-> "SendTyping", typing |-> TRUE, timeout |-> TypingTimeout]>>
    IN  IF ~in.typingOn THEN HandleResult("error sending typing notification", asked)
        ELSE AfterGenerate(in, Append(asked,
                 [op |-> "GenerateResponse",
                  messages |-> ContextMessages(in, messageText)]))

(* HandleMessage from the conversation context to the generation request:  *)
(* getConversationContext asks for the room type again and for the         *)
(* history, then the typing indicator is set and GenerateResponse called.  *)
Reply(in, messageText) ==
    AfterGenerate(in,
        <<[op |-> "GetRoomType"],
          [op |-> "GetRoomType"],
          [op |-> "GetRoomContext", limit |-> in.count],
          [op |-> "SendTyping", typing |-> TRUE, timeout |-> TypingTimeout],
          [op |-> "GenerateResponse",
           messages |-> ContextMessages(in, messageText)]>>)

HandleMessage_DefaultsToDirect(in) ==
    LET roomType == IF in.roomType = "error" THEN "direct" ELSE in.roomType
        messageText == MessageText(in.content, roomType, BotText)
    IN  IF in.content = <<>> THEN HandleResult("<nil>", <<>>)
        ELSE IF ~IsFromAllowedDomain(UserText(in.senderID))
        THEN HandleResult("<nil>", <<>>)
        ELSE IF ~IsAddressedToBot(in.content, roomType, BotText)
        THEN HandleResult("<nil>", <<[op |-> "GetRoomType"]>>)
        ELSE IF messageText = <<>>
        THEN HandleResult("<nil>", <<[op |-> "GetRoomType"]>>)
        ELSE Reply(in, messageText)

(* MessageHandler.HandleMessage *)
HandleMessage(in) ==
    LET messageText == MessageText(in.content, in.roomType, BotText)
    IN  IF in.content = <<>> THEN HandleResult("<nil>", <<>>)
        ELSE IF ~IsFromAllowedDomain(UserText(in.senderID))
        THEN HandleResult("<nil>", <<>>)
        ELSE IF in.roomType = "error"
        THEN HandleResult("error determining room type", <<[op |-> "GetRoomType"]>>)
        ELSE IF ~IsAddressedToBot(in.content, in.roomType, BotText)
        THEN HandleResult("<nil>", <<[op |-> "GetRoomType"]>>)
        ELSE IF messageText = <<>>
        THEN HandleResult("<nil>", <<[op |-> "GetRoomType"]>>)
        ELSE Reply(in, messageText)

----------------------------------------------------------------------------
(* JoinService.JoinRoom: one request to join roomID, with what the Matrix  *)
(* service answers given in the record in: joinOk whether JoinRoom         *)
(* succeeds, createOk whether CreateRoom does. The value is the error      *)
(* returned and the service calls made, in order.                          *)

(* The fallback of a failed join: a new room, not the requested one. *)
tryAlternativeJoinMethods(in, calls) ==
    LET made == Append(calls, [op |-> "CreateRoom", isDirect |-> TRUE,
                               inviteUsers |-> <<>>])
    IN  IF in.createOk THEN HandleResult("<nil>", made)
        ELSE HandleResult("all join methods failed", made)

JoinRoom(in) ==
    LET asked == <<[op |-> "JoinRoom", roomID |-> in.roomID]>>
    IN  IF in.joinOk THEN HandleResult("<nil>", asked)
        ELSE IF HasPrefix(in.roomID, <<"!">>)
        THEN tryAlternativeJoinMethods(in, asked)
        ELSE HandleResult("failed to join room", asked)

----------------------------------------------------------------------------
(* Single calls of the functions above; getConversationContext as          *)
(* HandleMessage makes it.                                                 *)

MaxHistory == 2         \* events in one answer of the history fetch

Hi == <<"h", "i">>
Henry == <<"h", "e", "n", "r", "y">>
HenryHi == Henry \o <<" ">> \o Hi

Contents ==
    {<<>>, Hi, Henry, HenryHi, Hi \o <<" ">> \o Henry, BotText \o <<" ">> \o Hi,
     <<"H">> \o Tail(Henry) \o <<" ">> \o Hi, Henry \o <<"s">> \o <<" ">> \o Hi,
     Henry \o <<":">> \o Hi}

(* Configured user ids: the usual one, one without a domain, and two with  *)
(* an upper-case letter, with and without a domain. Only emptiness of the  *)
(* configured value is checked at start-up.                                *)
HenryUpper == <<"@", "H">> \o Tail(Henry)
UserIds == {BotText, <<"@", "b">>, HenryUpper,
            HenryUpper \o SubSeq(BotText, 7, 13)}

(* Texts for the mention test: the contents above, the word-boundary cases *)
(* and the mentions of the other identities.                               *)
HenrySmith == Henry \o <<"s", "m", "i", "t", "h", " ", "d", "i", "d", " ",
                         "t", "h", "i", "s">>
HenryComma == Henry \o <<",", " ">> \o Hi
AskHenry == <<"a", "s", "k", " ">> \o Henry
              \o <<":", " ", "w", "h", "a", "t", " ", "t", "i", "m", "e", " ",
                   "i", "s", " ", "i", "t">>
AddressedContents ==
    Contents \cup
    {HenrySmith, HenryComma, AskHenry,
     <<"(">> \o Henry \o <<")", " ">> \o Hi,
     Hi \o <<" ">> \o Henry \o <<"!", "h", "i">>,
     <<"o">> \o Henry \o <<" ">> \o Hi,
     HenryUpper \o <<" ">> \o Hi,
     HenryUpper \o SubSeq(BotText, 7, 13) \o <<" ">> \o Hi,
     <<"@", "b", " ">> \o Hi}

HistBodies == {<<>>, Hi, Henry, HenryHi}
HistTimes == {1000, 4000, 9000}
NowMs == 6000

RawEvents == [body : HistBodies, sender : Users, ts : HistTimes]

Fetches ==
    {[err |-> TRUE, chunk |-> <<>>]} \cup
    {[err |-> FALSE, chunk |-> c] :
        c \in UNION {[1..k -> RawEvents] : k \in 0..MaxHistory}}

(* History answers whose only event carries a server timestamp ahead of    *)
(* the handler's clock by the whole duplicate window.                      *)
SkewedFetches ==
    {[err |-> FALSE,
      chunk |-> <<[body |-> b, sender |-> u, ts |-> NowMs + DedupWindowMs]>>] :
        b \in HistBodies, u \in Users}

AddressedCalls ==
    [fn : {"IsAddressedToBot"}, content : AddressedContents,
     roomType : {"direct", "group"}, userID : UserIds]

(* HandleMessage reaches getConversationContext with a content that is not *)
(* empty, is addressed to the bot, and leaves a message text.              *)
ContextCalls ==
    {c \in [fn : {"getConversationContext"}, content : Contents,
            roomType : {"direct", "group"}, senderID : Users \ {Bot},
            fetch : Fetches \cup SkewedFetches, now : {NowMs}] :
        /\ c.content # <<>>
        /\ IsAddressedToBot(c.content, c.roomType, BotText)
        /\ MessageText(c.content, c.roomType, BotText) # <<>>}

(* The configured sizes of the history: none, one, the default. *)
ContextCounts == {0, 1, ContextMessageCount}

(* Client.GetRoomContext through Service.GetRoomContext, with its limit. *)
RoomContextCalls ==
    [fn : {"GetRoomContext"}, fetch : Fetches, limit : ContextCounts]

(* What the backend may answer: a text, no text at all, an error. *)
Reply42 == <<"4", "2">>
Generated ==
    {[err |-> FALSE, text |-> Reply42], [err |-> FALSE, text |-> <<>>],
     [err |-> TRUE, text |-> <<>>]}

(* The history answers seen by a handled message: a failure, an empty      *)
(* room, one earlier message of the sender.                                *)
HandleFetches ==
    {[err |-> TRUE, chunk |-> <<>>], [err |-> FALSE, chunk |-> <<>>],
     [err |-> FALSE,
      chunk |-> <<[body |-> HenryHi, sender |-> "@u1:hen.im", ts |-> 1000]>>]}

HandleCalls ==
    [fn : {"HandleMessage"}, senderID : Senders,
     content : {<<>>, Hi, Henry, HenryHi, <<"H">> \o Tail(HenryHi)},
     roomType : {"direct", "group", "error"}, fetch : HandleFetches,
     count : ContextCounts, typingOn : BOOLEAN, typingOff : BOOLEAN,
     generated : Generated, sendOk : BOOLEAN, now : {NowMs}]

(* Rooms asked for by id and by alias. *)
RoomIds == {<<"!", "r", ":">> \o AllowedDomain, <<"#", "r", ":">> \o AllowedDomain}

JoinCalls ==
    [fn : {"JoinRoom"}, roomID : RoomIds, joinOk : BOOLEAN, createOk : BOOLEAN]

UnitInit ==
    /\ call \in AddressedCalls \cup ContextCalls \cup RoomContextCalls
                 \cup HandleCalls \cup JoinCalls
    /\ ret = NoCall
    /\ writer = NoWrite
    /\ reader = NoRead
    /\ mainPc = "new"
    /\ loopPc = "notStarted"
    /\ shutPc = "idle"
    /\ ctxDone = FALSE
    /\ procExited = FALSE
    /\ startupTime = StartupNow
    /\ lastProcessedTime = StartupNow
    /\ file = [exists |-> FALSE, data |-> Empty]
    /\ syncToken = Empty
    /\ nextBatch = Empty
    /\ syncErr = NoErr
    /\ syncCalls = 0
    /\ handlers = {}
    /\ cbPc = "idle"
    /\ lastOutcome = [path |-> "none", join |-> "none"]
    /\ lastSave = NoSave
    /\ exitReason = "none"
    /\ handlerFailed = FALSE
    /\ roomCheckPc = "notStarted"

CallIsAddressedToBot ==
    /\ call.fn = "IsAddressedToBot"
    /\ ret = NoCall
    /\ ret' = [fn |-> call.fn,
               value |-> IsAddressedToBot(call.content, call.roomType, call.userID)]
    /\ UNCHANGED <<botVars, roomCheckPc, call, writer, reader>>

CallGetConversationContext ==
    /\ call.fn = "getConversationContext"
    /\ ret = NoCall
    /\ ret' = [fn |-> call.fn,
               value |-> getConversationContext(
                            call.senderID,
                            MessageText(call.content, call.roomType, BotText),
                            GetRoomContext(call.fetch, ContextMessageCount, Bot),
                            call.now, BotText)]
    /\ UNCHANGED <<botVars, roomCheckPc, call, writer, reader>>

CallGetRoomContext ==
    /\ call.fn = "GetRoomContext"
    /\ ret = NoCall
    /\ ret' = [fn |-> call.fn,
               value |-> GetRoomContext(call.fetch, call.limit, Bot)]
    /\ UNCHANGED <<botVars, roomCheckPc, call, writer, reader>>

CallHandleMessage ==
    /\ call.fn = "HandleMessage"
    /\ ret = NoCall
    /\ ret' = [fn |-> call.fn, value |-> HandleMessage(call)]
    /\ UNCHANGED <<botVars, roomCheckPc, call, writer, reader>>

CallJoinRoom ==
    /\ call.fn = "JoinRoom"
    /\ ret = NoCall
    /\ ret' = [fn |-> call.fn, value |-> JoinRoom(call)]
    /\ UNCHANGED <<botVars, roomCheckPc, call, writer, reader>>

UnitNext ==
    \/ CallJoinRoom
    \/ CallIsAddressedToBot
    \/ CallGetConversationContext
    \/ CallGetRoomContext
    \/ CallHandleMessage

UnitSpec == UnitInit /\ [][UnitNext]_vars

----------------------------------------------------------------------------
(* Properties of the session loop *)


(* The authentication-failure signature of a stream termination error. *)
AuthSignature(err) ==
    /\ err # NoErr
    /\ err \cap {"M_UNKNOWN_TOKEN", "Invalid access token", "401"} # {}

(* C1, as stated: no event with a timestamp below the startup time is ever *)
(* handed to the message handler, whatever its timestamp, 0 included.      *)
C1_NoEventBeforeStartupDispatched ==
    [][\A e \in handlers' \ handlers : ~(e.ts < startupTime)]_vars

(* C1, amended: no event with a positive timestamp below the startup time  *)
(* is ever handed to the message handler.                                  *)
C1_NoStaleEventDispatched ==
    [][\A e \in handlers' \ handlers : ~(e.ts > 0 /\ e.ts < startupTime)]_vars

(* A stale event has been delivered and the callback returned early. *)
C1_StaleEventDiscarded ==
    /\ lastOutcome.path = "stale"
    /\ loopPc = "syncing"

(* C2: lastProcessedTime never decreases, whatever is delivered and across *)
(* reconnects.                                                             *)
C2_WatermarkMonotonic ==
    [][lastProcessedTime' >= lastProcessedTime]_vars

(* After a reconnect, an event not newer than the advanced watermark has   *)
(* been delivered.                                                         *)
C2_OldEventAfterAdvance ==
    /\ lastProcessedTime > startupTime
    /\ lastOutcome.path = "seen"
    /\ syncCalls >= 2

(* C3: a stream termination with the authentication-failure signature      *)
(* empties the in-memory cursor, writes the empty value to the file, ends  *)
(* the loop, and no streaming attempt is started afterwards.               *)
C3_AuthFailureClearsAndExits ==
    [][/\ (loopPc = "returned" /\ AuthSignature(syncErr) /\ loopPc' # "returned")
            => /\ syncToken' = Empty
               /\ lastSave'.done /\ lastSave'.val = Empty
               /\ lastSave'.ok => file' = [exists |-> TRUE, data |-> Empty]
               /\ loopPc' = "exited"
       /\ loopPc = "exited" => (loopPc' = "exited" /\ syncCalls' = syncCalls)]_vars

(* The loop has ended on an authentication failure that cleared a cursor   *)
(* the stream had advanced.                                                *)
C3_ExitedOnAuthFailure ==
    /\ loopPc = "exited"
    /\ exitReason = "auth"
    /\ nextBatch # Empty
    /\ syncToken = Empty
    /\ lastSave.done /\ lastSave.ok /\ lastSave.val = Empty
    /\ file.data = Empty

(* C4, as stated: once the context is cancelled, no empty value is written *)
(* to the cursor file and a held in-memory cursor is not emptied.          *)
C4_CancelNeverClearsCursor ==
    [][ctxDone =>
         /\ syncToken # Empty => syncToken' # Empty
         /\ ~(lastSave' # lastSave /\ lastSave'.done /\ lastSave'.val = Empty)]_vars

(* C5: once the loop is at its cancellation check with the context         *)
(* cancelled, it ends there, and an ended loop starts no client.Sync().    *)
C5_NoSyncAfterCancelCheck ==
    [][/\ (ctxDone /\ loopPc = "check") => loopPc' \in {"check", "exited"}
       /\ loopPc = "exited" => (loopPc' = "exited" /\ syncCalls' = syncCalls)
       /\ syncCalls' # syncCalls => loopPc = "starting"]_vars

(* The loop ran a stream attempt, the context was cancelled, and the loop  *)
(* ended at its cancellation check.                                        *)
C5_ExitedOnCancel ==
    /\ loopPc = "exited"
    /\ exitReason = "cancelled"
    /\ ctxDone
    /\ syncCalls >= 1

(* C6: after a stream termination with an error that is not an            *)
(* authentication failure the loop streams again unless the context is     *)
(* cancelled, and the loop ends only on an authentication failure or on    *)
(* cancellation.                                                           *)
C6_TransientErrorRetries ==
    /\ [](loopPc = "exited" => exitReason \in {"auth", "cancelled"})
    /\ (loopPc = "returned" /\ syncErr # NoErr /\ ~AuthSignature(syncErr))
          ~> (loopPc = "syncing" \/ ctxDone)

(* After the Sync call counter has saturated and the last attempt ended    *)
(* with a timeout, the loop has passed its check and calls Sync again.     *)
C6_RetriedPastCounter ==
    /\ loopPc = "starting"
    /\ syncErr = {"context deadline exceeded"}
    /\ syncCalls = MaxSyncCalls
    /\ ~ctxDone

(* C7, as stated: when a further stream attempt is about to start, the     *)
(* store's cursor has been copied to the in-memory cursor and written to   *)
(* the file, so that a successful write left the file equal to the cursor. *)
C7_CursorSavedBeforeRetry ==
    (loopPc = "starting" /\ syncCalls >= 1) =>
        /\ syncToken = nextBatch
        /\ lastSave.done /\ lastSave.val = nextBatch
        /\ lastSave.ok => file = [exists |-> TRUE, data |-> syncToken]

(* C7, amended: the same, for a store that holds a non-empty cursor. *)
C7_KnownCursorSavedBeforeRetry ==
    (loopPc = "starting" /\ syncCalls >= 1 /\ nextBatch # Empty) =>
        /\ syncToken = nextBatch
        /\ lastSave.done /\ lastSave.val = nextBatch
        /\ lastSave.ok => file = [exists |-> TRUE, data |-> syncToken]

(* A further attempt is about to start after the advanced cursor was saved. *)
C7_SavedBeforeRetry ==
    /\ loopPc = "starting"
    /\ syncCalls >= 1
    /\ nextBatch = <<"b">>
    /\ lastSave.ok
    /\ file.data = <<"b">>

(* C8, as stated: after a clean stream termination the loop sleeps before  *)
(* the next attempt.                                                       *)
C8_CleanTerminationBacksOff ==
    [][(loopPc = "returned" /\ syncErr = NoErr /\ loopPc' # "returned")
          => loopPc' = "backoff"]_vars

(* C8, amended: after a clean stream termination the loop goes straight    *)
(* back to its cancellation check, without the sleep.                      *)
C8_CleanTerminationSkipsBackoff ==
    [][(loopPc = "returned" /\ syncErr = NoErr /\ loopPc' # "returned")
          => loopPc' = "check"]_vars

(* The loop is back at its check right after a clean termination. *)
C8_AtCheckAfterCleanReturn ==
    /\ loopPc = "check"
    /\ syncCalls >= 1
    /\ syncErr = NoErr

(* C9: while the stream runs, the callback is never waiting for a handler: *)
(* every event can be delivered, however many handlers are still running,  *)
(* and a dispatched event's handler runs on after the callback returned.   *)
C9_CallbackNeverWaits ==
    (loopPc = "syncing" /\ ~procExited) =>
        /\ cbPc = "idle"
        /\ \A e \in Events : ENABLED OnEvent(e)

(* An event was consumed while two earlier handlers were still running. *)
C9_ConsumedWhileHandlersRun ==
    /\ loopPc = "syncing"
    /\ Cardinality(handlers) >= 2
    /\ lastOutcome.path = "seen"

(* C10: lastProcessedTime changes only in the event callback, syncToken    *)
(* only in Connect (before the loop exists) and in the sync loop, and a    *)
(* handler task changes neither.                                           *)
C10_SessionStateSingleWriter ==
    [][/\ lastProcessedTime' # lastProcessedTime => \E e \in Events : OnEvent(e)
       /\ syncToken' # syncToken =>
            \/ Connect /\ loopPc = "notStarted"
            \/ AfterSync
       /\ (handlers' # handlers /\ handlers' \subseteq handlers)
            => UNCHANGED sessionVars]_vars

(* A dispatched event's handler has finished after the watermark advanced  *)
(* and the cursor was updated by the loop.                                 *)
C10_HandlerFinishedAfterWrites ==
    /\ handlers = {}
    /\ lastOutcome.path = "dispatched"
    /\ lastProcessedTime > startupTime
    /\ syncToken = <<"b">>

----------------------------------------------------------------------------
(* C11: a message event whose sender is the bot's own user id is never     *)
(* handed to the message handler: no step adds such an event to the set of *)
(* running handlers, whatever events were delivered before it.             *)
C11_OwnMessageNeverDispatched ==
    [][\A e \in handlers' \ handlers :
          ~(e.type = "m.room.message" /\ e.sender = "@henry:hen.im")]_vars

(* The callback met a fresh message of the bot itself and dropped it.      *)
C11_OwnMessageDropped ==
    /\ lastOutcome.path = "self"
    /\ loopPc = "syncing"
    /\ lastProcessedTime >= startupTime

(* The invitations addressed to the bot among the events of the model.     *)
C12_InvitesForBot ==
    {e \in Events : /\ e.type = "m.room.member"
                    /\ e.membership = "invite"
                    /\ e.stateKey = "@henry:hen.im"}

(* C12 as stated: while the loop streams, no delivery of an invitation     *)
(* addressed to the bot can end without a join attempt.                    *)
C12_EveryInviteJoined ==
    (loopPc = "syncing" /\ ~procExited) =>
       \A e \in C12_InvitesForBot :
          ~ENABLED (OnEvent(e) /\ lastOutcome'.join = "none")

(* C12: while the loop streams, an invitation addressed to the bot that    *)
(* passes the two timestamp filters can be delivered, and every delivery   *)
(* of it makes a join attempt after which, whether the attempt succeeded   *)
(* or failed, the callback has returned and the loop keeps streaming.      *)
C12_FreshInviteJoined ==
    (loopPc = "syncing" /\ ~procExited) =>
       \A e \in C12_InvitesForBot :
          ~(e.ts > 0 /\ (e.ts < startupTime \/ e.ts <= lastProcessedTime))
          => /\ ENABLED OnEvent(e)
             /\ ~ENABLED (/\ OnEvent(e)
                          /\ ~(/\ lastOutcome'.join \in {"ok", "failed"}
                               /\ cbPc' = "idle"
                               /\ loopPc' = "syncing"
                               /\ ~procExited'))

(* A join attempt failed and the loop is still streaming, able to take the *)
(* next event.                                                             *)
C12_JoinFailedLoopStreaming ==
    /\ lastOutcome.join = "failed"
    /\ loopPc = "syncing"
    /\ cbPc = "idle"
    /\ ~procExited

(* C13: an error returned by HandleMessage stays in its handler: the step  *)
(* in which a handler finishes with an error changes neither the position  *)
(* of the sync loop, nor the context, nor the callback, nor the process,   *)
(* and afterwards a fresh message of another user that the stream delivers *)
(* is still dispatched.                                                    *)
C13_HandlerErrorContained ==
    /\ [][(handlers' # handlers /\ handlers' \subseteq handlers /\ handlerFailed')
            => /\ loopPc' = loopPc
               /\ ctxDone' = ctxDone
               /\ cbPc' = cbPc
               /\ procExited' = procExited
               /\ mainPc' = mainPc
               /\ exitReason' = exitReason]_vars
    /\ []((handlerFailed /\ loopPc = "syncing" /\ ~procExited)
            => \A e \in Events :
                 (/\ e.type = "m.room.message"
                  /\ e.sender # "@henry:hen.im"
                  /\ (e.ts = 0 \/ (e.ts >= startupTime /\ e.ts > lastProcessedTime)))
                 => ENABLED (OnEvent(e) /\ e \in handlers'))

(* A handler has returned an error and the loop is streaming, the context  *)
(* not cancelled, no other handler running.                                *)
C13_StreamingAfterHandlerError ==
    /\ handlerFailed
    /\ handlers = {}
    /\ loopPc = "syncing"
    /\ ~ctxDone
    /\ ~procExited

C15_SaveAtomicForReader ==
    (reader.done /\ reader.during.pc = "write")
      => reader.token \in {TrimSpace(reader.during.prev), reader.during.token}

----------------------------------------------------------------------------
(* Properties of the conversation context and of the mention test *)

(* C16, in the case the claim singles out: when the history fetch answers  *)
(* with events newest first and of distinct timestamps, the entries of the *)
(* returned window, the appended current message included, are in          *)
(* non-decreasing order of timestamp.                                      *)
C16_WindowChronological ==
    (/\ ret.fn = "getConversationContext"
     /\ ~call.fetch.err
     /\ \A i, j \in 1..Len(call.fetch.chunk) :
           i < j => call.fetch.chunk[i].ts > call.fetch.chunk[j].ts)
    => \A i, j \in 1..Len(ret.value.window) :
           i < j => ret.value.window[i].Timestamp <= ret.value.window[j].Timestamp

(* C17: when the newest event of the fetched history is the message being  *)
(* handled (its sender, its body as received, a timestamp less than 5000   *)
(* ms before the current time, shared with no other fetched event), the    *)
(* window holds that message once: one entry in all among the entry made   *)
(* from that event and the appended current message, in either room type.  *)
C17_HandledMessageOnce ==
    (/\ ret.fn = "getConversationContext"
     /\ ~call.fetch.err
     /\ Len(call.fetch.chunk) >= 1
     /\ call.fetch.chunk[1].body = call.content
     /\ call.fetch.chunk[1].sender = call.senderID
     /\ call.now - call.fetch.chunk[1].ts >= 0
     /\ call.now - call.fetch.chunk[1].ts < 5000
     /\ \A k \in 2..Len(call.fetch.chunk) :
           call.fetch.chunk[k].ts # call.fetch.chunk[1].ts)
    => Cardinality({i \in 1..Len(ret.value.window) :
                      /\ ret.value.window[i].SenderID = call.senderID
                      /\ ret.value.window[i].Timestamp
                           \in {call.now, call.fetch.chunk[1].ts}}) = 1

(* C18: getConversationContext never returns an error, and when the        *)
(* history fetch failed the window is the current message alone, as a user *)
(* entry.                                                                   *)
C18_FetchFailureGivesCurrentOnly ==
    ret.fn = "getConversationContext"
    => /\ ret.value.err = "<nil>"
       /\ call.fetch.err
            => /\ Len(ret.value.window) = 1
               /\ ret.value.window[1].Role = "user"
               /\ ret.value.window[1].SenderID = call.senderID
               /\ ret.value.window[1].Timestamp = call.now
               /\ ret.value.window[1].Content
                    = IF call.roomType = "group"
                      THEN StripMention(call.content, BotText, Henry)
                      ELSE call.content

(* The fetch failed and the call has returned. *)
C18_ReturnedAfterFailedFetch ==
    /\ ret.fn = "getConversationContext"
    /\ call.fetch.err
    /\ call.roomType = "group"

(* C19: no entry of a returned window has empty content.                   *)
C19_NoEmptyEntry ==
    ret.fn = "getConversationContext"
    => \A i \in 1..Len(ret.value.window) : ret.value.window[i].Content # <<>>

(* The history held an event without body and one that is nothing but the  *)
(* bot's name, and the call has returned.                                  *)
C19_EmptiedHistoryDropped ==
    /\ ret.fn = "getConversationContext"
    /\ ~call.fetch.err
    /\ \E k \in 1..Len(call.fetch.chunk) : call.fetch.chunk[k].body = <<>>
    /\ \E k \in 1..Len(call.fetch.chunk) :
          /\ call.fetch.chunk[k].body = <<"h", "e", "n", "r", "y">>
          /\ call.fetch.chunk[k].sender = "@u1:hen.im"
    /\ Len(ret.value.window) = 1

(* C20: in a direct room IsAddressedToBot answers true, whatever the       *)
(* content and whatever the bot's user id.                                 *)
C20_DirectRoomAlwaysAddressed ==
    (ret.fn = "IsAddressedToBot" /\ call.roomType = "direct")
    => ret.value = TRUE

(* A direct-room call returned for a content that names no one and a user  *)
(* id other than the configured one.                                       *)
C20_DirectCallWithoutMention ==
    /\ ret.fn = "IsAddressedToBot"
    /\ call.roomType = "direct"
    /\ call.content = <<"h", "i">>
    /\ call.userID = <<"@", "b">>
    /\ ret.value = TRUE

(* The local name of a configured user id, lower-cased, as the mention     *)
(* test compares it.                                                       *)
C21_LocalName == ToLower(Localpart(call.userID))

(* C21: in a group room, a text that contains neither the bot's local name *)
(* in any letter case nor its full qualified identity is not addressed to  *)
(* the bot.                                                                *)
C21_NoNameNotAddressed ==
    (/\ ret # NoCall
     /\ ret.fn = "IsAddressedToBot"
     /\ call.roomType = "group"
     /\ ~Contains(ToLower(call.content), C21_LocalName)
     /\ ~Contains(call.content, call.userID))
        => ret.value = FALSE

(* A text with a colon after another name was tested for a bot whose name  *)
(* it does not contain, and found not addressed.                           *)
C21_OtherNameWithColon ==
    /\ ret # NoCall
    /\ ret.fn = "IsAddressedToBot"
    /\ call.roomType = "group"
    /\ call.userID = <<"@", "b">>
    /\ call.content = Henry \o <<":">> \o Hi
    /\ ret.value = FALSE

(* The letters and digits of a lower-cased text. *)
C22_Alphanumeric ==
    {LowerCase[k] : k \in 1..26} \cup
    {"0", "1", "2", "3", "4", "5", "6", "7", "8", "9"}

(* Some whitespace-separated token of the text is the local name once its  *)
(* surrounding punctuation is trimmed.                                     *)
C22_NameIsToken ==
    LET words == Fields(call.content)
    IN  \E k \in 1..Len(words) :
            ToLower(Trim(words[k], WordPunctuation)) = C21_LocalName

(* Some token starts with the local name, immediately followed by one of   *)
(* , . ! ? : ;                                                             *)
C22_NameThenPunctuation ==
    LET words == Fields(call.content)
        n == Len(C21_LocalName)
    IN  \E k \in 1..Len(words) :
            /\ Len(words[k]) > n
            /\ ToLower(SubSeq(words[k], 1, n)) = C21_LocalName
            /\ words[k][n + 1] \in AfterNamePunctuation

(* The local name occurs in the text, and every occurrence starts a token  *)
(* and is followed by a letter or a digit.                                 *)
C22_OnlyPrefixOfLongerWord ==
    LET lc == ToLower(call.content)
        n == Len(C21_LocalName)
        at == {i \in 1..(Len(lc) - n + 1) : SubSeq(lc, i, i + n - 1) = C21_LocalName}
    IN  /\ at # {}
        /\ \A i \in at :
              /\ i = 1 \/ lc[i - 1] = " "
              /\ i + n <= Len(lc)
              /\ lc[i + n] \in C22_Alphanumeric

(* C22: in a group room a token equal to the local name after trimming     *)
(* punctuation, or starting with the local name followed by one of         *)
(* , . ! ? : ; is addressed to the bot; a text where the local name occurs *)
(* only as the prefix of a longer alphanumeric word is not. So             *)
(* "henrysmith did this" is not addressed, "henry, hi" and                 *)
(* "ask henry: what time is it" are.                                       *)
C22_WordBoundary ==
    (/\ ret # NoCall
     /\ ret.fn = "IsAddressedToBot"
     /\ call.roomType = "group")
        => /\ C22_NameIsToken => ret.value = TRUE
           /\ C22_NameThenPunctuation => ret.value = TRUE
           /\ C22_OnlyPrefixOfLongerWord => ret.value = FALSE
           /\ call.content = HenrySmith /\ call.userID = BotText
                 => ret.value = FALSE
           /\ call.content \in {HenryComma, AskHenry} /\ call.userID = BotText
                 => ret.value = TRUE

(* "henrysmith did this" was tested in a group room and found not          *)
(* addressed.                                                              *)
C22_LongerWordNotAddressed ==
    /\ ret # NoCall
    /\ ret.fn = "IsAddressedToBot"
    /\ call.roomType = "group"
    /\ call.userID = BotText
    /\ call.content = HenrySmith
    /\ C22_OnlyPrefixOfLongerWord
    /\ ret.value = FALSE

(* C23, as stated: in a group room, a text that contains the configured    *)
(* "@..." identity exactly, letter case included, is addressed to the bot, *)
(* whatever the identity: with upper-case letters, without a domain.       *)
C23_FullIdentityAddressed ==
    (/\ ret # NoCall
     /\ ret.fn = "IsAddressedToBot"
     /\ call.roomType = "group"
     /\ Head(call.userID) = "@"
     /\ Contains(call.content, call.userID))
        => ret.value = TRUE

----------------------------------------------------------------------------
(* Properties of HandleMessage and of the history request *)

(* A call of HandleMessage has returned. *)
C24_Handled == ret # NoCall /\ ret.fn = "HandleMessage"

(* The number of calls of one service operation HandleMessage made. *)
C24_CallsOf(op) == Len(SelectSeq(ret.value.calls, LAMBDA c : c.op = op))

(* The sender's user id names the allowed domain after its first colon. *)
C24_SenderInAllowedDomain ==
    LET id == UserText(call.senderID)
        colon == Index(id, <<":">>)
    IN  colon # 0 /\ SubSeq(id, colon + 1, Len(id)) = AllowedDomain

(* C24: for a sender outside the allowed domain HandleMessage returns no   *)
(* error and calls none of SendMessage, SendTyping, GetRoomContext and     *)
(* GenerateResponse, whatever the content and the room.                    *)
C24_OutsiderIgnored ==
    (C24_Handled /\ ~C24_SenderInAllowedDomain)
        => /\ ret.value.err = "<nil>"
           /\ \A op \in {"SendMessage", "SendTyping", "GetRoomContext",
                         "GenerateResponse"} : C24_CallsOf(op) = 0

(* A message of a user of another homeserver, in a direct room with a      *)
(* working backend, has been handled without any call.                     *)
C24_OutsiderInDirectRoom ==
    /\ C24_Handled
    /\ call.senderID = "@u2:evil.org"
    /\ call.content = Hi
    /\ call.roomType = "direct"
    /\ ~call.generated.err /\ call.sendOk
    /\ ret.value = [err |-> "<nil>", calls |-> <<>>]

(* C25: in a direct room, for an allowed sender and a content that is not  *)
(* empty, when generation succeeds SendMessage is called exactly once,     *)
(* with the generated text unchanged, whether or not the two typing calls  *)
(* succeed.                                                                *)
C25_ReplySentOnce ==
    (/\ C24_Handled
     /\ call.roomType = "direct"
     /\ C24_SenderInAllowedDomain
     /\ call.content # <<>>
     /\ ~call.generated.err)
        => /\ C24_CallsOf("SendMessage") = 1
           /\ \A k \in 1..Len(ret.value.calls) :
                 ret.value.calls[k].op = "SendMessage"
                    => ret.value.calls[k].text = call.generated.text

(* A reply has been sent in a direct room although both typing calls       *)
(* failed.                                                                 *)
C25_RepliedWithoutTyping ==
    /\ C24_Handled
    /\ call.roomType = "direct"
    /\ call.senderID = "@u1:hen.im"
    /\ call.content = Hi
    /\ ~call.typingOn /\ ~call.typingOff
    /\ call.generated = [err |-> FALSE, text |-> Reply42]
    /\ C24_CallsOf("SendTyping") = 2
    /\ ret.value.calls[Len(ret.value.calls)] = [op |-> "SendMessage", text |-> Reply42]
    /\ ret.value.err = "<nil>"

(* C26: when GenerateResponse fails, HandleMessage calls SendMessage       *)
(* exactly once, with the fixed apology, and returns an error, also when   *)
(* sending the apology fails.                                              *)
C26_ApologyOnBackendFailure ==
    (/\ C24_Handled
     /\ C24_CallsOf("GenerateResponse") > 0
     /\ call.generated.err)
        => /\ C24_CallsOf("SendMessage") = 1
           /\ \A k \in 1..Len(ret.value.calls) :
                 ret.value.calls[k].op = "SendMessage"
                    => ret.value.calls[k].text = Apology
           /\ ret.value.err # "<nil>"
           /\ ~call.sendOk => ret.value.err = "error generating response"

(* The backend failed, the apology could not be sent, and HandleMessage    *)
(* returned the generation error.                                          *)
C26_ApologyFailedToo ==
    /\ C24_Handled
    /\ call.generated.err
    /\ ~call.sendOk
    /\ C24_CallsOf("GenerateResponse") = 1
    /\ ret.value.calls[Len(ret.value.calls)] = [op |-> "SendMessage", text |-> Apology]
    /\ ret.value.err = "error generating response"

(* C27: when GetRoomType fails for an allowed sender and a content that is *)
(* not empty, HandleMessage returns an error and calls none of             *)
(* SendMessage, SendTyping and GenerateResponse.                           *)
C27_RoomTypeErrorSurfaced ==
    (/\ C24_Handled
     /\ call.roomType = "error"
     /\ C24_SenderInAllowedDomain
     /\ call.content # <<>>)
        => /\ ret.value.err # "<nil>"
           /\ \A op \in {"SendMessage", "SendTyping", "GenerateResponse"} :
                 C24_CallsOf(op) = 0

(* GetRoomType failed for a message that a direct room would have          *)
(* answered, and the error came back.                                      *)
C27_ReturnedRoomTypeError ==
    /\ C24_Handled
    /\ call.roomType = "error"
    /\ call.senderID = "@u1:hen.im"
    /\ call.content = HenryHi
    /\ ~call.generated.err /\ call.sendOk
    /\ ret.value = [err |-> "error determining room type",
                    calls |-> <<[op |-> "GetRoomType"]>>]

(* C28: HandleMessage returns nil without calling SendMessage, SendTyping  *)
(* or GenerateResponse when the content is empty, when the room is a group *)
(* and the message is not addressed to the bot, and when the room is a     *)
(* group and stripping the bot's mention leaves no text.                   *)
C28_NoOpCases ==
    (/\ C24_Handled
     /\ \/ call.content = <<>>
        \/ call.roomType = "group" /\ ~MentionsBot(call.content, BotText)
        \/ /\ call.roomType = "group"
           /\ StripMention(call.content, BotText, Localpart(BotText)) = <<>>)
        => /\ ret.value.err = "<nil>"
           /\ \A op \in {"SendMessage", "SendTyping", "GenerateResponse"} :
                 C24_CallsOf(op) = 0

(* A group message of an allowed sender that is nothing but the bot's name *)
(* has been handled without reply.                                         *)
C28_BareMentionNoReply ==
    /\ C24_Handled
    /\ call.roomType = "group"
    /\ call.senderID = "@u1:hen.im"
    /\ call.content = Henry
    /\ ~call.generated.err /\ call.sendOk
    /\ ret.value = [err |-> "<nil>", calls |-> <<[op |-> "GetRoomType"]>>]

(* C29, as stated: GetRoomContext(limit) returns at most limit events, and *)
(* the context handed to the backend holds at most ContextMessageCount     *)
(* earlier messages besides the current one, for every configured count,   *)
(* 0 included.                                                             *)
C29_AtMostCountPrevious ==
    /\ (ret # NoCall /\ ret.fn = "GetRoomContext")
          => Len(ret.value.msgs) <= call.limit
    /\ C24_Handled
          => \A k \in 1..Len(ret.value.calls) :
                ret.value.calls[k].op = "GenerateResponse"
                   => Len(ret.value.calls[k].messages) <= call.count + 1

(* C30, as stated: when the join of the requested room fails,              *)
(* JoinService.JoinRoom returns an error and makes no further room         *)
(* operation, so it returns nil only if the requested room was joined.     *)
C30_FailedJoinAbandoned ==
    (ret # NoCall /\ ret.fn = "JoinRoom")
        => /\ ~call.joinOk
                => /\ ret.value.err # "<nil>"
                   /\ ret.value.calls = <<[op |-> "JoinRoom", roomID |-> call.roomID]>>
           /\ ret.value.err = "<nil>" => call.joinOk

----------------------------------------------------------------------------
(* Properties of the duplicate test, of the history stripping and of the   *)
(* order of a handler's calls                                              *)

(* A call of getConversationContext has returned. *)
C31_ContextReturned == ret # NoCall /\ ret.fn = "getConversationContext"

(* The message text and the reconciled history of that call. *)
C31_CurrentMessage == MessageText(call.content, call.roomType, BotText)

C31_History ==
    ContextEntries(RecentMessages(GetRoomContext(call.fetch, ContextMessageCount, Bot)),
                   BotText)

(* The current message was not appended: the window is the history. *)
C31_CurrentLeftOut == ret.value.window = C31_History

(* C31, as stated: the current message is left out only when the last      *)
(* history entry has its content and its sender; otherwise, also when an   *)
(* earlier entry matches, a user entry for it is appended at the end.      *)
C31_OnlyLastEntrySuppresses ==
    C31_ContextReturned =>
        LET h == C31_History
            lastMatches == /\ h # <<>>
                           /\ h[Len(h)].Content = C31_CurrentMessage
                           /\ h[Len(h)].SenderID = call.senderID
        IN  /\ C31_CurrentLeftOut => lastMatches
            /\ ~lastMatches =>
                  ret.value.window =
                     Append(h, [Role |-> "user", Content |-> C31_CurrentMessage,
                                Timestamp |-> call.now, SenderID |-> call.senderID])

(* C32, as stated: the current message is left out only if a history entry *)
(* with its content and sender has a timestamp less than 5000 ms away from *)
(* the current time, earlier or later.                                     *)
C32_WindowBothDirections ==
    (C31_ContextReturned /\ C31_CurrentLeftOut) =>
        \E k \in 1..Len(C31_History) :
            LET m == C31_History[k]
            IN  /\ m.Content = C31_CurrentMessage
                /\ m.SenderID = call.senderID
                /\ call.now - m.Timestamp < DedupWindowMs
                /\ m.Timestamp - call.now < DedupWindowMs

(* The fetched messages, oldest first, as the history loop reads them. *)
C33_Fetched ==
    Reverse(RecentMessages(GetRoomContext(call.fetch, ContextMessageCount, Bot)))

(* C33, as stated: in a direct room every user message of the history      *)
(* keeps its body, and a message of the bot keeps its body in every room.  *)
C33_StripOnlyGroupUsers ==
    C31_ContextReturned =>
        \A k \in 1..Len(C33_Fetched) :
            LET m == C33_Fetched[k]
            IN  (m.IsFromBot \/ call.roomType = "direct") =>
                    \E j \in 1..Len(ret.value.window) :
                        /\ ret.value.window[j].Content = m.Content
                        /\ ret.value.window[j].SenderID = m.SenderID
                        /\ ret.value.window[j].Timestamp = m.Timestamp

(* The text HandleMessage answers: the content of the entry it appended    *)
(* for the current message to the context of GenerateResponse.             *)
C34_AnsweredTexts ==
    {c.messages[Len(c.messages)].Content :
        c \in {ret.value.calls[k] : k \in
                  {i \in 1..Len(ret.value.calls) :
                      ret.value.calls[i].op = "GenerateResponse"}}}

(* C34, as stated: in a group room the text HandleMessage answers holds no *)
(* mention the detector recognises.                                        *)
C34_AnsweredTextWithoutMention ==
    (C24_Handled /\ call.roomType = "group") =>
        \A t \in C34_AnsweredTexts : ~MentionsBot(t, BotText)

(* The positions of the calls of one operation in a handler's trace. *)
C35_At(op) == {i \in 1..Len(ret.value.calls) : ret.value.calls[i].op = op}

(* C35: when HandleMessage reaches generation, SendTyping(true) comes      *)
(* before GenerateResponse; on success SendTyping(false) comes next and    *)
(* the reply SendMessage last; the trace from the first typing call on and *)
(* the result depend on the backend and the send alone, not on the         *)
(* outcome of either typing call.                                          *)
C35_TypingAroundGeneration ==
    (C24_Handled /\ C35_At("GenerateResponse") # {}) =>
        LET calls == ret.value.calls
            g == CHOOSE i \in C35_At("GenerateResponse") : TRUE
            n == Len(calls)
        IN  /\ C35_At("GenerateResponse") = {g}
            /\ g > 1
            /\ calls[g - 1] = [op |-> "SendTyping", typing |-> TRUE,
                               timeout |-> TypingTimeout]
            /\ \A i \in C35_At("SendTyping") : i = g - 1 \/ i > g
            /\ IF call.generated.err
               THEN /\ SubSeq(calls, g + 1, n) =
                          <<[op |-> "SendMessage", text |-> Apology]>>
                    /\ ret.value.err = "error generating response"
               ELSE /\ SubSeq(calls, g + 1, n) =
                          <<[op |-> "SendTyping", typing |-> FALSE, timeout |-> 0],
                            [op |-> "SendMessage", text |-> call.generated.text]>>
                    /\ ret.value.err = IF call.sendOk THEN "<nil>"
                                       ELSE "error sending response"

(* A handler whose two typing calls failed still generated, cleared the    *)
(* indicator and sent the reply.                                           *)
C35_BothTypingCallsFailed ==
    /\ C24_Handled
    /\ ~call.typingOn /\ ~call.typingOff
    /\ call.roomType = "group"
    /\ call.content = HenryHi
    /\ call.generated = [err |-> FALSE, text |-> Reply42]
    /\ call.sendOk
    /\ Len(ret.value.calls) = 7
    /\ ret.value.calls[5].op = "GenerateResponse"
    /\ ret.value.calls[6] = [op |-> "SendTyping", typing |-> FALSE, timeout |-> 0]
    /\ ret.value.err = "<nil>"

(* C38, as stated: every returned window is non-empty and ends with a user *)
(* entry of the current sender with the current message as content.        *)
C38_WindowEndsWithCurrent ==
    C31_ContextReturned =>
        LET w == ret.value.window
        IN  /\ w # <<>>
            /\ w[Len(w)].Role = "user"
            /\ w[Len(w)].Content = C31_CurrentMessage
            /\ w[Len(w)].SenderID = call.senderID

----------------------------------------------------------------------------
(* Properties of the watermark and of the cursor writes *)

(* The message events of other users with a positive timestamp: the events *)
(* a delivery can hand to the message handler.                             *)
C36_TimedMessages ==
    {e \in Events : e.type = "m.room.message" /\ e.sender # Bot /\ e.ts > 0}

(* C36: an event with a positive timestamp is handed to the message        *)
(* handler only if its timestamp is above the watermark, which is never    *)
(* below the startup time, and the watermark then becomes its timestamp;   *)
(* every handler still running has a timestamp above the startup time and  *)
(* not above the watermark. So the dispatched positive timestamps increase *)
(* strictly and an event is dispatched at most once across re-deliveries.  *)
C36_DispatchStrictlyIncreasing ==
    /\ lastProcessedTime >= startupTime
    /\ \A h \in handlers :
          h.ts > 0 => (h.ts > startupTime /\ h.ts <= lastProcessedTime)
    /\ (loopPc = "syncing" /\ ~procExited) =>
          \A e \in C36_TimedMessages :
             /\ e.ts <= lastProcessedTime
                   => ~ENABLED (OnEvent(e) /\ lastOutcome'.path = "dispatched")
             /\ ~ENABLED (/\ OnEvent(e)
                          /\ lastOutcome'.path = "dispatched"
                          /\ lastProcessedTime' # e.ts)

(* After a reconnect, the event whose handler is still running has been    *)
(* delivered again and discarded.                                          *)
C36_RedeliveredNotDispatched ==
    /\ syncCalls >= 2
    /\ lastOutcome.path = "seen"
    /\ \E h \in handlers : h.ts > 0 /\ h.ts = lastProcessedTime
    /\ loopPc = "syncing"

(* C37: an event with a positive timestamp that passes both filters sets   *)
(* the watermark to its timestamp whatever its kind and sender; an event   *)
(* with timestamp 0 passes both filters and leaves the watermark as it is. *)
C37_WatermarkForEveryKind ==
    /\ \A ts \in {-1, 0} : ~ShouldSkip(ts, startupTime, lastProcessedTime)
    /\ (loopPc = "syncing" /\ cbPc = "idle" /\ ~procExited) =>
        \A e \in Events :
            /\ (e.ts > 0 /\ e.ts >= startupTime /\ e.ts > lastProcessedTime)
                  => /\ ENABLED OnEvent(e)
                     /\ ~ENABLED (OnEvent(e) /\ lastProcessedTime' # e.ts)
            /\ e.ts <= 0
                  => /\ ENABLED OnEvent(e)
                     /\ ~ENABLED (/\ OnEvent(e)
                                  /\ \/ lastProcessedTime' # lastProcessedTime
                                     \/ lastOutcome'.path \in {"stale", "seen"})

(* A delivery that was no message for the handler (a membership change, a  *)
(* reaction or a message of the bot itself) has advanced the watermark.    *)
C37_AdvancedWithoutDispatch ==
    /\ lastOutcome.path \in {"notMessage", "self"}
    /\ lastProcessedTime > startupTime
    /\ handlers = {}
    /\ syncCalls = 1
    /\ loopPc = "syncing"

(* C39: the empty value is written to the cursor file, and a held cursor   *)
(* is emptied in memory, only when a stream termination has the            *)
(* authentication-failure signature or when the login of Connect fails     *)
(* while a cursor is held; after any other termination the loop writes no  *)
(* empty value and keeps a held cursor.                                    *)
C39_EmptyWriteOnlyOnAuthFailure ==
    [][LET authTermination == loopPc = "returned" /\ AuthSignature(syncErr)
                                 /\ loopPc' # "returned"
           loginFailure == mainPc = "new" /\ mainPc' = "failed" /\ syncToken # Empty
           otherTermination == loopPc = "returned" /\ ~AuthSignature(syncErr)
                                  /\ loopPc' # "returned"
       IN  /\ (lastSave' # lastSave /\ lastSave'.done /\ lastSave'.val = Empty)
                 => (authTermination \/ loginFailure)
           /\ (syncToken # Empty /\ syncToken' = Empty)
                 => (authTermination \/ loginFailure)
           /\ otherTermination
                 => /\ (lastSave' # lastSave /\ lastSave'.done) => lastSave'.val # Empty
                    /\ syncToken # Empty => syncToken' # Empty]_vars

(* A transient error ended a stream that had advanced the cursor: the loop *)
(* saved the new cursor and waits before the next attempt.                 *)
C39_TransientErrorKeptCursor ==
    /\ loopPc = "backoff"
    /\ syncErr # NoErr /\ ~AuthSignature(syncErr)
    /\ syncToken # Empty
    /\ lastSave.done /\ lastSave.val = syncToken

====
